---- MODULE Spec2Model ----
(***************************************************************************)
(* A model of the carbon-intensity engine of green_MoE:                    *)
(*   backend/services/carbon_service.py  (EIACarbonService)                *)
(*   backend/services/region_router.py   (select_optimal_region,           *)
(*                                         get_region_carbon_data)         *)
(*                                                                         *)
(* Numbers.  Generation values are integers (MWh).  carbon_intensity and   *)
(* renewable_percent are held in tenths (the code rounds both to one       *)
(* decimal place), so 244.4 gCO2/kWh is 2444 and 40.0 % is 400.  The       *)
(* unrounded percentage of a FuelGeneration is held as the exact fraction  *)
(* <<numerator, denominator>>.  Times are minutes.                         *)
(*                                                                         *)
(* Strings.  A period label is the sequence of its characters' digits, so  *)
(* that Python's string comparison is the lexicographic order LexGT.       *)
(***************************************************************************)
EXTENDS Integers, Sequences, FiniteSets, TLC

VARIABLES
    now,          \* datetime.now(), minutes
    cache,        \* self.cache: region -> None or [reading, time]
    tasks,        \* the _get_region_carbon_reading coroutines in flight
    gather,       \* the get_all_regions_carbon_intensity call in flight
    returned,     \* what the last finished top-level call returned
    api_key,      \* whether settings.eia_api_key / EIA_API_KEY is set
    payload,      \* FuelMixParser under test: the provider payload
    parsed,       \* ... and what the parser and the calculators made of it
    ppc           \* ... and how far that computation has got

vars == <<now, cache, tasks, gather, returned, api_key, payload, parsed, ppc>>

None == "None"

(***************************************************************************)
(* Bounds of the model.                                                    *)
(***************************************************************************)
NRegions == 2      \* how many regions of the catalog (a prefix) are modelled
MaxTime == 30      \* the clock stops here
MaxRecords == 3    \* records per payload in ParserSpec

(***************************************************************************)
(* Static tables.                                                          *)
(***************************************************************************)
cache_duration == 30

gcp_to_eia_mapping_full ==
    << [gcp_region |-> "us-west1",    balancing_authority |-> "BPAT"],
       [gcp_region |-> "us-west2",    balancing_authority |-> "CISO"],
       [gcp_region |-> "us-west3",    balancing_authority |-> "PACE"],
       [gcp_region |-> "us-west4",    balancing_authority |-> "NEVP"],
       [gcp_region |-> "us-central1", balancing_authority |-> "MISO"],
       [gcp_region |-> "us-south1",   balancing_authority |-> "ERCO"],
       [gcp_region |-> "us-east1",    balancing_authority |-> "SCEG"],
       [gcp_region |-> "us-east4",    balancing_authority |-> "PJM"],
       [gcp_region |-> "us-east5",    balancing_authority |-> "PJM"] >>

Min(a, b) == IF a < b THEN a ELSE b

\* The catalog in dict order, cut to the modelled prefix.
gcp_to_eia_mapping ==
    SubSeq(gcp_to_eia_mapping_full, 1, Min(NRegions, Len(gcp_to_eia_mapping_full)))

Catalog == 1..Len(gcp_to_eia_mapping)
CatalogRegions == {gcp_to_eia_mapping[i].gcp_region : i \in Catalog}
CatalogIndex(r) == CHOOSE i \in Catalog : gcp_to_eia_mapping[i].gcp_region = r

\* A region string that no catalog entry maps.
UnmappedRegion == "europe-west1"
RegionStrings == CatalogRegions \cup {UnmappedRegion}

emission_factors ==
    [ col |-> 2249, pet |-> 1672, ng |-> 898, oth |-> 500, nuc |-> 0, wat |-> 0,
      ps |-> 0, wnd |-> 0, sun |-> 0, geo |-> 0, bio |-> 230, bat |-> 0,
      oil |-> 1672, gas |-> 898, hydro |-> 0, wind |-> 0, solar |-> 0,
      nuclear |-> 0, coal |-> 2249, natural_gas |-> 898, biomass |-> 230,
      geothermal |-> 0, other |-> 500 ]

EmissionFactor(fuel_key) ==
    IF fuel_key \in DOMAIN emission_factors THEN emission_factors[fuel_key] ELSE 500

renewable_fuels ==
    {"wnd", "sun", "wat", "ps", "geo", "bio",
     "wind", "solar", "hydro", "geothermal", "biomass"}

(***************************************************************************)
(* FuelMixParser: _parse_eia_response.                                     *)
(***************************************************************************)
\* record.get("fueltype", "unknown").lower().replace("-", "_") on the fuel
\* type codes the model's payloads use.
NormalizeFuelType(raw) ==
    CASE raw = None          -> "unknown"
      [] raw = "NG"          -> "ng"
      [] raw = "ng"          -> "ng"
      [] raw = "WND"         -> "wnd"
      [] raw = "COL"         -> "col"
      [] raw = "NUC"         -> "nuc"
      [] raw = "WAT"         -> "wat"
      [] raw = "SUN"         -> "sun"
      [] raw = "OTH"         -> "oth"
      [] raw = "Natural-Gas" -> "natural_gas"
      [] raw = "natural_gas" -> "natural_gas"

\* record.get("value", 0) or 0; a JSON null (or a missing key) is <<>> and a
\* number v is <<v>>.
GenerationOf(value) == IF value = <<>> THEN 0 ELSE value[1]

\* Python's str > str on period labels.
RECURSIVE LexGT(_, _)
LexGT(a, b) ==
    IF a = <<>> THEN FALSE
    ELSE IF b = <<>> THEN TRUE
    ELSE IF Head(a) # Head(b) THEN Head(a) > Head(b)
    ELSE LexGT(Tail(a), Tail(b))

\* Where fuel_type sits in the dict fuel_data (0: not a key).
KeyIndex(fuel_data, fuel_type) ==
    IF \E i \in DOMAIN fuel_data : fuel_data[i].fuel_type = fuel_type
    THEN CHOOSE i \in DOMAIN fuel_data : fuel_data[i].fuel_type = fuel_type
    ELSE 0

\* A slip the parser could make: period >= kept period, which keeps the last
\* of several records of one fuel and one period.
IsMoreRecentOrSame(period, kept) == ~LexGT(kept, period)

\* period > fuel_data[fuel_type]["period"]
IsMoreRecent(period, kept) == LexGT(period, kept)

\* One turn of the loop over eia_data["response"]["data"]; fuel_data is the
\* dict in insertion order (an assignment to a present key keeps its place).
ParseRecord(fuel_data, record) ==
    LET fuel_type == NormalizeFuelType(record.fueltype)
        entry == [fuel_type |-> fuel_type,
                  generation |-> GenerationOf(record.value),
                  period |-> record.period]
        k == KeyIndex(fuel_data, fuel_type)
    IN  IF k = 0 THEN Append(fuel_data, entry)
        ELSE IF IsMoreRecent(record.period, fuel_data[k].period)
             THEN [fuel_data EXCEPT ![k] = entry]
             ELSE fuel_data

RECURSIVE ParseRecords(_, _)
ParseRecords(fuel_data, data) ==
    IF data = <<>> THEN fuel_data
    ELSE ParseRecords(ParseRecord(fuel_data, Head(data)), Tail(data))

FuelData(data) == ParseRecords(<<>>, data)

RECURSIVE SumGeneration(_)
SumGeneration(fuel_data) ==
    IF fuel_data = <<>> THEN 0
    ELSE Head(fuel_data).generation + SumGeneration(Tail(fuel_data))

\* sorted(fuel_mix, key=generation_mwh, reverse=True): stable, so equal
\* generations keep their order.
RECURSIVE InsertByGeneration(_, _)
InsertByGeneration(sorted, fuel) ==
    IF sorted = <<>> THEN <<fuel>>
    ELSE IF Head(sorted).generation_mwh >= fuel.generation_mwh
         THEN <<Head(sorted)>> \o InsertByGeneration(Tail(sorted), fuel)
         ELSE <<fuel>> \o sorted

RECURSIVE SortByGeneration(_)
SortByGeneration(fuel_mix) ==
    IF fuel_mix = <<>> THEN <<>>
    ELSE InsertByGeneration(SortByGeneration(SubSeq(fuel_mix, 1, Len(fuel_mix) - 1)),
                            fuel_mix[Len(fuel_mix)])

\* A slip the parser could make: no check of the total.
ParseEIAResponseKeepingZeroTotal(data) ==
    IF data = <<>> THEN <<>>
    ELSE LET fuel_data == FuelData(data)
             total_generation == SumGeneration(fuel_data)
         IN  SortByGeneration(
                    [i \in DOMAIN fuel_data |->
                       [fuel_type |-> fuel_data[i].fuel_type,
                        generation_mwh |-> fuel_data[i].generation,
                        percentage |-> <<fuel_data[i].generation * 100,
                                         total_generation>>]])

ParseEIAResponse(data) ==
    IF data = <<>> THEN <<>>
    ELSE LET fuel_data == FuelData(data)
             total_generation == SumGeneration(fuel_data)
         IN  IF total_generation = 0 THEN <<>>
             ELSE SortByGeneration(
                    [i \in DOMAIN fuel_data |->
                       [fuel_type |-> fuel_data[i].fuel_type,
                        generation_mwh |-> fuel_data[i].generation,
                        percentage |-> <<fuel_data[i].generation * 100,
                                         total_generation>>]])

(***************************************************************************)
(* IntensityCalculator.                                                    *)
(***************************************************************************)
\* round(n / d), to the nearest integer, halves to the even one (Python's
\* round), for d # 0.
RoundDiv(n, d) ==
    LET nn == IF d < 0 THEN 0 - n ELSE n
        dd == IF d < 0 THEN 0 - d ELSE d
        q == nn \div dd
        r == nn % dd
    IN  IF 2 * r < dd THEN q
        ELSE IF 2 * r > dd THEN q + 1
        ELSE IF q % 2 = 0 THEN q ELSE q + 1

RECURSIVE SumMwh(_)
SumMwh(fuel_mix) ==
    IF fuel_mix = <<>> THEN 0
    ELSE Head(fuel_mix).generation_mwh + SumMwh(Tail(fuel_mix))

\* sum of emission_factor * generation_mwh: weighted_emissions * total_generation
RECURSIVE WeightedEmissions(_)
WeightedEmissions(fuel_mix) ==
    IF fuel_mix = <<>> THEN 0
    ELSE EmissionFactor(Head(fuel_mix).fuel_type) * Head(fuel_mix).generation_mwh
         + WeightedEmissions(Tail(fuel_mix))

RECURSIVE RenewableGeneration(_)
RenewableGeneration(fuel_mix) ==
    IF fuel_mix = <<>> THEN 0
    ELSE (IF Head(fuel_mix).fuel_type \in renewable_fuels
          THEN Head(fuel_mix).generation_mwh ELSE 0)
         + RenewableGeneration(Tail(fuel_mix))

\* In tenths of gCO2/kWh.  weighted_emissions * 453.592 / 1000, times ten, is
\* (sum ef*g) * 56699 / (total * 12500).
CalculateCarbonIntensity(fuel_mix) ==
    LET total_generation == SumMwh(fuel_mix)
    IN  IF total_generation = 0 THEN 5000
        ELSE RoundDiv(WeightedEmissions(fuel_mix) * 56699, total_generation * 12500)

\* In tenths of a percent.
CalculateRenewablePercentage(fuel_mix) ==
    LET total_generation == SumMwh(fuel_mix)
    IN  IF total_generation = 0 THEN 0
        ELSE RoundDiv(RenewableGeneration(fuel_mix) * 1000, total_generation)

NotParsed == [fuel_data |-> <<>>, fuel_mix |-> <<>>, carbon_intensity |-> 0,
              renewable_percent |-> 0]

(***************************************************************************)
(* FetchOrchestrator and CacheStore: one EIACarbonService instance.        *)
(*                                                                         *)
(* A coroutine runs without interruption between two awaits.  The only     *)
(* await of _get_region_carbon_reading that yields to the event loop is    *)
(* the network call in _fetch_eia_fuel_mix, so a coroutine is two steps:   *)
(* from its start to the request, and from the response to its return.     *)
(* asyncio.gather starts its tasks in catalog order in one turn of the     *)
(* loop, before any response is handled.                                   *)
(***************************************************************************)
\* Minutes per step of the clock: half a cache_duration.
TickStep == cache_duration \div 2

\* datetime.now().strftime("%Y-%m-%d %H:00"), the clock starting at
\* 2024-01-01 10:00.
StrfTimeHour(t) ==
    CASE t \div 60 = 0 -> "2024-01-01 10:00"
      [] t \div 60 = 1 -> "2024-01-01 11:00"
      [] OTHER         -> "2024-01-01 12:00"

\* What the provider can answer.  ok = FALSE stands for a status other than
\* 200, a timeout and any exception raised in the request or in the parser.
Rec(fueltype, value, period) == [fueltype |-> fueltype, value |-> value, period |-> period]

SamplePayloads ==
    { \* wind alone
      << Rec("WND", <<1>>, <<1, 0>>) >>,
      \* null and zero values only
      << Rec("NG", <<>>, <<1, 0>>), Rec("WND", <<0>>, <<1, 0>>) >>,
      \* values that cancel
      << Rec("NG", <<2>>, <<1, 0>>), Rec("WND", <<-2>>, <<1, 0>>) >>,
      \* no records
      << >>,
      \* six fuels, two hours of them
      << Rec("WND", <<6>>, <<1, 1>>), Rec("SUN", <<5>>, <<1, 1>>),
         Rec("WAT", <<4>>, <<1, 1>>), Rec("NUC", <<3>>, <<1, 1>>),
         Rec("NG", <<2>>, <<1, 1>>),  Rec("COL", <<1>>, <<1, 1>>),
         Rec("NG", <<4>>, <<1, 0>>) >> }

Responses == {[ok |-> FALSE, data |-> <<>>]} \cup {[ok |-> TRUE, data |-> d] : d \in SamplePayloads}

\* The coroutines: one per catalog entry for the gather, and two for
\* single-region lookups, which may overlap.
SingleTasks == {-1, 0}
TaskIds == SingleTasks \cup Catalog

IdleTask == [pc |-> "idle", region |-> None, result |-> <<>>, response |-> <<>>,
             caller |-> None]
IdleGather == [pc |-> "idle", kind |-> None, caller |-> None, completed |-> <<>>]

ServiceIdle ==
    /\ now = 0
    /\ cache = [r \in RegionStrings |-> <<>>]
    /\ tasks = [t \in TaskIds |-> IdleTask]
    /\ gather = IdleGather
    /\ returned = <<>>

ParserIdle ==
    /\ payload = <<>>
    /\ parsed = NotParsed
    /\ ppc = "unused"

\* A slip the cache check could make: <= in place of <.
CacheFreshOrJustExpired(c, region) ==
    /\ c[region] # <<>>
    /\ now - c[region][1].time <= cache_duration

\* cache_key in self.cache and datetime.now() - cached_time < self.cache_duration
CacheFresh(c, region) ==
    /\ c[region] # <<>>
    /\ now - c[region][1].time < cache_duration

\* _get_region_carbon_reading up to its first await: the cache check, the
\* catalog lookup, the request; c is the instance's cache.
StartedTask(c, region) ==
    IF CacheFresh(c, region)
    THEN [IdleTask EXCEPT !.pc = "done", !.region = region,
                          !.result = <<c[region][1].reading>>]
    ELSE IF region \notin CatalogRegions
    THEN [IdleTask EXCEPT !.pc = "done", !.region = region]
    ELSE [IdleTask EXCEPT !.pc = "waiting", !.region = region]

\* _fetch_eia_fuel_mix from the response on: None and [] are both <<>>.
FetchEIAFuelMix(resp) == IF resp.ok THEN ParseEIAResponse(resp.data) ELSE <<>>

CarbonReading(region, fuel_mix) ==
    [gcp_region |-> region,
     balancing_authority |-> gcp_to_eia_mapping[CatalogIndex(region)].balancing_authority,
     carbon_intensity |-> CalculateCarbonIntensity(fuel_mix),
     renewable_percent |-> CalculateRenewablePercentage(fuel_mix),
     fuel_mix |-> fuel_mix,
     timestamp |-> now,
     data_hour |-> StrfTimeHour(now)]

\* _get_region_carbon_reading from the response to its return.
FinishedTask(t, resp) ==
    LET fuel_mix == FetchEIAFuelMix(resp)
    IN  [tasks[t] EXCEPT !.pc = "done", !.response = <<resp>>,
                         !.result = IF fuel_mix = <<>> THEN <<>>
                                    ELSE <<CarbonReading(tasks[t].region, fuel_mix)>>]

\* A slip the store could make: an entry that is still fresh is left alone
\* (the first write wins).
CachePutIfNotFresh(region, result) ==
    IF result = <<>> \/ CacheFresh(cache, region) THEN cache
    ELSE [cache EXCEPT ![region] = <<[reading |-> result[1], time |-> now]>>]

\* A slip the store could make: a lookup that ends absent drops the entry of
\* its region.
CachePutEvictingOnAbsent(region, result) ==
    IF result = <<>> THEN [cache EXCEPT ![region] = <<>>]
    ELSE [cache EXCEPT ![region] = <<[reading |-> result[1], time |-> now]>>]

\* self.cache[cache_key] = (reading, datetime.now())
CachePut(region, result) ==
    IF result = <<>> THEN cache
    ELSE [cache EXCEPT ![region] = <<[reading |-> result[1], time |-> now]>>]

FuelDicts(fuel_mix) ==
    [i \in DOMAIN fuel_mix |-> [fuel |-> fuel_mix[i].fuel_type,
                                generation_mwh |-> fuel_mix[i].generation_mwh,
                                percentage |-> fuel_mix[i].percentage]]

\* get_region_carbon_intensity's return value: None or the dict.
RegionCarbonIntensity(result) ==
    IF result = <<>> THEN <<>>
    ELSE << [gcp_region |-> result[1].gcp_region,
             balancing_authority |-> result[1].balancing_authority,
             carbon_intensity |-> result[1].carbon_intensity,
             renewable_percent |-> result[1].renewable_percent,
             data_hour |-> result[1].data_hour,
             fuel_mix |-> FuelDicts(result[1].fuel_mix)] >>

\* A slip the router could make: the label of the except branch on the
\* estimate.
RegionCarbonDataMislabelled(carbon_data) ==
    IF carbon_data # <<>>
    THEN [carbon_intensity |-> carbon_data[1].carbon_intensity,
          renewable_percent |-> carbon_data[1].renewable_percent,
          balancing_authority |-> carbon_data[1].balancing_authority,
          data_hour |-> carbon_data[1].data_hour]
    ELSE [carbon_intensity |-> 3500, renewable_percent |-> 300,
          balancing_authority |-> "unknown", data_hour |-> "error"]

\* get_region_carbon_data's return value below its construction of the
\* service (region_router.py).
RegionCarbonData(carbon_data) ==
    IF carbon_data # <<>>
    THEN [carbon_intensity |-> carbon_data[1].carbon_intensity,
          renewable_percent |-> carbon_data[1].renewable_percent,
          balancing_authority |-> carbon_data[1].balancing_authority,
          data_hour |-> carbon_data[1].data_hour]
    ELSE [carbon_intensity |-> 3500, renewable_percent |-> 300,
          balancing_authority |-> "unknown", data_hour |-> "estimated"]

\* ... and what its except branch returns.
RegionCarbonDataOnError ==
    [carbon_intensity |-> 3500, renewable_percent |-> 300,
     balancing_authority |-> "unknown", data_hour |-> "error"]

\* What the caller of a finished single-region lookup gets.  Kept beside the
\* value, for the properties to read: whether the provider was called, and
\* the cache entry of the region as the lookup's last step found it.
SingleReturn(caller, region, result, fetched, previous) ==
    [op |-> caller, region |-> region, raised |-> FALSE,
     fetched |-> fetched, previous |-> previous,
     value |-> IF caller = "get_region_carbon_data"
               THEN <<RegionCarbonData(RegionCarbonIntensity(result))>>
               ELSE RegionCarbonIntensity(result)]

\* sorted(readings, key=carbon_intensity): stable.
RECURSIVE InsertByIntensity(_, _)
InsertByIntensity(sorted, reading) ==
    IF sorted = <<>> THEN <<reading>>
    ELSE IF Head(sorted).carbon_intensity <= reading.carbon_intensity
         THEN <<Head(sorted)>> \o InsertByIntensity(Tail(sorted), reading)
         ELSE <<reading>> \o sorted

RECURSIVE SortByIntensity(_)
SortByIntensity(readings) ==
    IF readings = <<>> THEN <<>>
    ELSE InsertByIntensity(SortByIntensity(SubSeq(readings, 1, Len(readings) - 1)),
                           readings[Len(readings)])

\* The results in the order in which the tasks completed: what collecting
\* them as they complete would give.
GatherResultsAsCompleted ==
    [k \in 1..Len(gather.completed) |-> tasks[gather.completed[k]].result]

\* results = await asyncio.gather(*tasks, return_exceptions=True): the results
\* in the order of the tasks, which is the catalog's.
GatherResults == [i \in Catalog |-> tasks[i].result]

\* A slip the filter could make: one failure empties the result.
FilterReadingsAllOrNothing(results) ==
    IF \E i \in DOMAIN results : results[i] = <<>> THEN <<>>
    ELSE [i \in DOMAIN results |-> results[i][1]]

RECURSIVE FilterReadings(_)
FilterReadings(results) ==
    IF results = <<>> THEN <<>>
    ELSE (IF Head(results) # <<>> THEN <<Head(results)[1]>> ELSE <<>>)
         \o FilterReadings(Tail(results))

\* get_all_regions_carbon_intensity from the gather on.
AllRegionsCarbonIntensity == SortByIntensity(FilterReadings(GatherResults))

\* A slip: the last reading of the ranking in place of the first.
GreenestRegionLast(readings) ==
    IF readings # <<>> THEN <<readings[Len(readings)].gcp_region>> ELSE <<>>

\* get_greenest_region
GreenestRegion(readings) ==
    IF readings # <<>> THEN <<readings[1].gcp_region>> ELSE <<>>

\* A slip: the whole fuel mix in place of its first five rows.
CarbonRankingsUntruncated(readings) ==
    [idx \in DOMAIN readings |->
        [rank |-> idx,
         gcp_region |-> readings[idx].gcp_region,
         balancing_authority |-> readings[idx].balancing_authority,
         carbon_intensity |-> readings[idx].carbon_intensity,
         renewable_percent |-> readings[idx].renewable_percent,
         data_hour |-> readings[idx].data_hour,
         fuel_mix |-> FuelDicts(readings[idx].fuel_mix)]]

\* get_carbon_rankings
CarbonRankings(readings) ==
    [idx \in DOMAIN readings |->
        [rank |-> idx,
         gcp_region |-> readings[idx].gcp_region,
         balancing_authority |-> readings[idx].balancing_authority,
         carbon_intensity |-> readings[idx].carbon_intensity,
         renewable_percent |-> readings[idx].renewable_percent,
         data_hour |-> readings[idx].data_hour,
         fuel_mix |-> FuelDicts(SubSeq(readings[idx].fuel_mix, 1,
                                       Min(5, Len(readings[idx].fuel_mix))))]]

\* select_optimal_region below its construction of the service.
OptimalRegion(greenest_region) ==
    IF greenest_region # <<>> THEN greenest_region[1] ELSE "us-west1"

Kinds == {"get_all_regions_carbon_intensity", "get_greenest_region", "get_carbon_rankings"}

\* What the caller of a finished all-regions call gets.  Kept beside the
\* value, for the properties to read: what get_all_regions_carbon_intensity
\* returned, and the order in which the tasks had completed.
GatherReturn(kind, caller, readings) ==
    [op |-> caller, kind |-> kind, raised |-> FALSE, readings |-> readings,
     completed |-> gather.completed,
     value |-> IF caller = "select_optimal_region"
                 THEN <<OptimalRegion(GreenestRegion(readings))>>
               ELSE IF kind = "get_greenest_region" THEN GreenestRegion(readings)
               ELSE IF kind = "get_carbon_rankings" THEN CarbonRankings(readings)
               ELSE readings]

(***************************************************************************)
(* Actions.                                                                *)
(***************************************************************************)
Tick ==
    /\ now + TickStep <= MaxTime
    /\ now' = now + TickStep
    /\ returned' = <<>>
    /\ UNCHANGED <<cache, tasks, gather, api_key, payload, parsed, ppc>>

\* The tasks of one gather, each run to its first await.
StartedGather(c, kind, caller) ==
    /\ tasks' = [t \in TaskIds |->
                   IF t \in SingleTasks THEN tasks[t]
                   ELSE StartedTask(c, gcp_to_eia_mapping[t].gcp_region)]
    /\ gather' = [pc |-> "running", kind |-> kind, caller |-> caller,
                  completed |-> SelectSeq([i \in Catalog |-> i],
                        LAMBDA i : StartedTask(c, gcp_to_eia_mapping[i].gcp_region).pc = "done")]
    /\ returned' = <<>>

\* A call of get_all_regions_carbon_intensity, get_greenest_region or
\* get_carbon_rankings on the instance.
GetAllStart(kind) ==
    /\ gather.pc = "idle"
    /\ StartedGather(cache, kind, kind)
    /\ UNCHANGED <<now, cache, api_key, payload, parsed, ppc>>

\* A call of get_region_carbon_intensity(region) on the instance; a cache hit
\* and an unmapped region return in the same step.
StartedSingle(c, t, caller, region) ==
    LET task == StartedTask(c, region)
    IN  IF task.pc = "done"
        THEN /\ returned' = <<SingleReturn(caller, region, task.result, FALSE, c[region])>>
             /\ UNCHANGED tasks
        ELSE /\ returned' = <<>>
             /\ tasks' = [tasks EXCEPT ![t] = [task EXCEPT !.caller = caller]]

GetRegionStart(t, region) ==
    /\ tasks[t].pc = "idle"
    /\ StartedSingle(cache, t, "get_region_carbon_intensity", region)
    /\ UNCHANGED <<now, cache, gather, api_key, payload, parsed, ppc>>

\* The provider answers task t, which runs to its return.
Respond(t, resp) ==
    /\ tasks[t].pc = "waiting"
    /\ LET task == FinishedTask(t, resp)
       IN  /\ cache' = CachePut(task.region, task.result)
           /\ IF t \in SingleTasks
              THEN /\ tasks' = [tasks EXCEPT ![t] = IdleTask]
                   /\ returned' = <<SingleReturn(task.caller, task.region, task.result,
                                                 TRUE, cache[task.region])>>
                   /\ UNCHANGED gather
              ELSE /\ tasks' = [tasks EXCEPT ![t] = task]
                   /\ gather' = [gather EXCEPT !.completed = Append(@, t)]
                   /\ returned' = <<>>
    /\ UNCHANGED <<now, api_key, payload, parsed, ppc>>

\* Every task is done: the gather returns and its caller runs to its return.
GetAllFinish ==
    /\ gather.pc = "running"
    /\ \A i \in Catalog : tasks[i].pc = "done"
    /\ returned' = <<GatherReturn(gather.kind, gather.caller, AllRegionsCarbonIntensity)>>
    /\ tasks' = [t \in TaskIds |-> IF t \in SingleTasks THEN tasks[t] ELSE IdleTask]
    /\ gather' = IdleGather
    /\ UNCHANGED <<now, cache, api_key, payload, parsed, ppc>>

Init ==
    /\ ServiceIdle
    /\ api_key = TRUE
    /\ ParserIdle

\* The instance under calls of its all-regions methods.
Next ==
    \/ Tick
    \/ \E kind \in Kinds : GetAllStart(kind)
    \/ \E t \in Catalog, resp \in Responses : Respond(t, resp)
    \/ GetAllFinish

Spec == Init /\ [][Next]_vars

\* The instance under single-region lookups, two of which may overlap.
LookupNext ==
    \/ Tick
    \/ \E t \in SingleTasks, region \in RegionStrings : GetRegionStart(t, region)
    \/ \E t \in SingleTasks, resp \in Responses : Respond(t, resp)

LookupSpec == Init /\ [][LookupNext]_vars

(***************************************************************************)
(* region_router.py and routes.py.  Each call constructs its own EIACarbonService, whose *)
(* cache starts empty and is shared with no other call; the calls are      *)
(* taken one at a time, which loses nothing, since calls share no state.   *)
(* The constructor raises ValueError when no API key is set, and the       *)
(* call's except branch answers.                                           *)
(***************************************************************************)
NoCallInFlight ==
    /\ gather.pc = "idle"
    /\ \A t \in TaskIds : tasks[t].pc = "idle"

\* self.cache = {}
NewCache == [r \in RegionStrings |-> <<>>]

SelectOptimalRegion ==
    /\ NoCallInFlight
    /\ IF api_key
       THEN /\ cache' = NewCache
            /\ StartedGather(NewCache, "get_greenest_region", "select_optimal_region")
       ELSE /\ returned' = << [op |-> "select_optimal_region", kind |-> None,
                               raised |-> TRUE, readings |-> <<>>,
                               completed |-> <<>>,
                               value |-> <<"us-west1">>] >>
            /\ UNCHANGED <<cache, tasks, gather>>
    /\ UNCHANGED <<now, api_key, payload, parsed, ppc>>

GetRegionCarbonData(region) ==
    /\ NoCallInFlight
    /\ IF api_key
       THEN /\ cache' = NewCache
            /\ StartedSingle(NewCache, 0, "get_region_carbon_data", region)
       ELSE /\ returned' = << [op |-> "get_region_carbon_data", region |-> region,
                               raised |-> TRUE, fetched |-> FALSE, previous |-> <<>>,
                               value |-> <<RegionCarbonDataOnError>>] >>
            /\ UNCHANGED <<cache, tasks>>
    /\ UNCHANGED <<now, gather, api_key, payload, parsed, ppc>>

\* routes.py, get_regions_ranking: its own EIACarbonService too; the value is
\* the "rankings" of the answer, [] in the except branch.
GetRegionsRanking ==
    /\ NoCallInFlight
    /\ IF api_key
       THEN /\ cache' = NewCache
            /\ StartedGather(NewCache, "get_carbon_rankings", "get_regions_ranking")
       ELSE /\ returned' = << [op |-> "get_regions_ranking", kind |-> None,
                               raised |-> TRUE, readings |-> <<>>,
                               completed |-> <<>>,
                               value |-> <<>>] >>
            /\ UNCHANGED <<cache, tasks, gather>>
    /\ UNCHANGED <<now, api_key, payload, parsed, ppc>>

RouterInit ==
    /\ ServiceIdle
    /\ api_key \in BOOLEAN
    /\ ParserIdle

RouterNext ==
    \/ Tick
    \/ SelectOptimalRegion
    \/ \E region \in RegionStrings : GetRegionCarbonData(region)
    \/ GetRegionsRanking
    \/ \E t \in TaskIds, resp \in Responses : Respond(t, resp)
    \/ GetAllFinish

RouterSpec == RouterInit /\ [][RouterNext]_vars

(***************************************************************************)
(* ParserSpec: the parser and the calculators on every payload of at most  *)
(* MaxRecords records.                                                     *)
(***************************************************************************)
ParserFuelTypes == {"NG", "ng", "WND"}
\* "2024-01-01 10:00" and "2024-01-01 11:00" differ in the hour alone.
ParserPeriods == {<<1, 0>>, <<1, 1>>}
ParserValues == {<<>>, <<-2>>, <<3>>}
ParserRecords == [fueltype : ParserFuelTypes, value : ParserValues, period : ParserPeriods]
ParserPayloads == UNION {[1..n -> ParserRecords] : n \in 0..MaxRecords}

ParserInit ==
    /\ ServiceIdle
    /\ api_key = TRUE
    /\ payload \in ParserPayloads
    /\ parsed = NotParsed
    /\ ppc = "start"

\* fuel_mix = _parse_eia_response(data)
Parse ==
    /\ ppc = "start"
    /\ parsed' = [parsed EXCEPT !.fuel_data = FuelData(payload),
                                !.fuel_mix = ParseEIAResponse(payload)]
    /\ ppc' = "parsed"
    /\ UNCHANGED <<now, cache, tasks, gather, returned, api_key, payload>>

\* if not fuel_mix: return None
NoFuelMix ==
    /\ ppc = "parsed"
    /\ parsed.fuel_mix = <<>>
    /\ ppc' = "absent"
    /\ UNCHANGED <<now, cache, tasks, gather, returned, api_key, payload, parsed>>

\* carbon_intensity, renewable_percent = ...
Calculate ==
    /\ ppc = "parsed"
    /\ parsed.fuel_mix # <<>>
    /\ parsed' = [parsed EXCEPT
                    !.carbon_intensity = CalculateCarbonIntensity(parsed.fuel_mix),
                    !.renewable_percent = CalculateRenewablePercentage(parsed.fuel_mix)]
    /\ ppc' = "calculated"
    /\ UNCHANGED <<now, cache, tasks, gather, returned, api_key, payload>>

ParserNext == Parse \/ NoFuelMix \/ Calculate

ParserSpec == ParserInit /\ [][ParserNext]_vars

(***************************************************************************)
(* Properties.                                                             *)
(***************************************************************************)
Parsed == ppc \in {"parsed", "absent", "calculated"}

\* C4: for every fuel mix the parser produces from a payload with total
\* generation > 0, renewable_percent lies in [0, 100] and carbon_intensity is
\* >= 0.  (Both are held in tenths.)
C4_SharesInRange ==
    (ppc = "calculated" /\ SumMwh(parsed.fuel_mix) > 0)
        => /\ parsed.renewable_percent >= 0
           /\ parsed.renewable_percent <= 1000
           /\ parsed.carbon_intensity >= 0

FuelTypesOf(data) == {NormalizeFuelType(data[i].fueltype) : i \in DOMAIN data}

RecordsOfFuel(data, fuel_type) ==
    {i \in DOMAIN data : NormalizeFuelType(data[i].fueltype) = fuel_type}

\* No record of the same fuel has a greater period than record i.
HasGreatestPeriod(data, i) ==
    \A j \in RecordsOfFuel(data, NormalizeFuelType(data[i].fueltype)) :
        ~LexGT(data[j].period, data[i].period)

FirstOfGreatestPeriod(data, fuel_type) ==
    CHOOSE i \in RecordsOfFuel(data, fuel_type) :
        /\ HasGreatestPeriod(data, i)
        /\ \A j \in RecordsOfFuel(data, fuel_type) : j < i => ~HasGreatestPeriod(data, j)

\* One record alone of each fuel carries the fuel's greatest period.
GreatestPeriodsUnique(data) ==
    \A i, j \in DOMAIN data :
        (/\ i # j
         /\ NormalizeFuelType(data[i].fueltype) = NormalizeFuelType(data[j].fueltype)
         /\ HasGreatestPeriod(data, i))
            => ~HasGreatestPeriod(data, j)

Retained(fuel_data) ==
    {<<fuel_data[k].fuel_type, fuel_data[k].period, fuel_data[k].generation>> :
        k \in DOMAIN fuel_data}

Reordered(data, perm) == [i \in DOMAIN data |-> data[perm[i]]]

\* C5, as stated: the record kept for each normalized fuel type is the same
\* whatever the order of the records in the payload.
C5_SameInAnyOrder ==
    ppc = "parsed"
        => \A perm \in Permutations(DOMAIN payload) :
              Retained(FuelData(Reordered(payload, perm))) = Retained(parsed.fuel_data)

\* C5, amended: the parser keeps exactly one record for each normalized fuel
\* type, the first in payload order of those with the lexicographically
\* greatest period; what it keeps does not depend on the order of the records
\* when one record alone of each fuel carries the greatest period.
C5_KeepsFirstOfGreatestPeriod ==
    Parsed
        => /\ Len(parsed.fuel_data) = Cardinality(FuelTypesOf(payload))
           /\ Retained(parsed.fuel_data) =
                {<<fuel_type,
                   payload[FirstOfGreatestPeriod(payload, fuel_type)].period,
                   GenerationOf(payload[FirstOfGreatestPeriod(payload, fuel_type)].value)>> :
                    fuel_type \in FuelTypesOf(payload)}
           /\ (ppc = "parsed" /\ GreatestPeriodsUnique(payload))
                => \A perm \in Permutations(DOMAIN payload) :
                      Retained(FuelData(Reordered(payload, perm)))
                        = Retained(parsed.fuel_data)

\* Two records of one fuel, the 11:00 one first and the 10:00 one after it
\* with another value: the 11:00 value is the one kept.
C5_Witness ==
    /\ ppc = "parsed"
    /\ Len(payload) = 2
    /\ NormalizeFuelType(payload[1].fueltype) = NormalizeFuelType(payload[2].fueltype)
    /\ payload[1].period = <<1, 1>>
    /\ payload[2].period = <<1, 0>>
    /\ payload[1].value # payload[2].value
    /\ Retained(parsed.fuel_data) =
         {<<NormalizeFuelType(payload[1].fueltype), <<1, 1>>, GenerationOf(payload[1].value)>>}

RegionOf(i) == gcp_to_eia_mapping[i].gcp_region

\* The provider answered, and the answer held no usable data: the values
\* kept by the parser sum to zero.
NoUsableData(resp) == resp.ok /\ SumGeneration(FuelData(resp.data)) = 0

\* The regions whose fetch, in the gather in flight, failed: the provider
\* was asked and the answer was an error or held no usable data.
FailedRegions ==
    {tasks[i].region : i \in {j \in Catalog :
        /\ tasks[j].response # <<>>
        /\ (~tasks[j].response[1].ok \/ NoUsableData(tasks[j].response[1]))}}

GatherFinishes == gather.pc = "running" /\ gather'.pc = "idle"

AllRegionsReturned == returned # <<>> /\ returned[1].op \in Kinds

\* C1: get_all_regions_carbon_intensity does not raise and returns exactly
\* one reading for each catalog region whose fetch did not fail, and none for
\* a region whose fetch failed.
C1_ToleratesRegionFailures ==
    [][GatherFinishes =>
         /\ returned' # <<>>
         /\ ~returned'[1].raised
         /\ Len(returned'[1].readings) = Cardinality(CatalogRegions \ FailedRegions)
         /\ {returned'[1].readings[k].gcp_region : k \in DOMAIN returned'[1].readings}
              = CatalogRegions \ FailedRegions]_vars

\* One fetch of the gather failed and every other region has its reading.
C1_Witness ==
    /\ AllRegionsReturned
    /\ Len(returned[1].completed) = Len(gcp_to_eia_mapping)
    /\ Len(returned[1].readings) = Len(gcp_to_eia_mapping) - 1
    /\ Len(returned[1].readings) >= 1

\* C2: a lookup of region R at a time less than cache_duration after R's
\* entry was stored returns the stored reading and calls no provider; from
\* cache_duration on, the provider is called, and a successful answer
\* replaces the entry with one stored at the time of the answer.
C2_CacheTTL ==
    [][/\ (gather.pc = "idle" /\ gather'.pc = "running")
            => \A i \in Catalog :
                 IF /\ cache[RegionOf(i)] # <<>>
                    /\ now - cache[RegionOf(i)][1].time < cache_duration
                 THEN /\ tasks'[i].pc = "done"
                      /\ tasks'[i].response = <<>>
                      /\ tasks'[i].result = <<cache[RegionOf(i)][1].reading>>
                 ELSE tasks'[i].pc = "waiting"
       /\ \A i \in Catalog :
            (tasks[i].pc = "waiting" /\ tasks'[i].pc = "done" /\ tasks'[i].result # <<>>)
                => /\ cache'[RegionOf(i)] = <<[reading |-> tasks'[i].result[1], time |-> now]>>
                   /\ tasks'[i].result[1].timestamp = now]_vars

\* In one gather: a reading stored 15 minutes ago is served from the cache,
\* and an entry stored cache_duration ago is fetched again.
C2_Witness ==
    /\ gather.pc = "running"
    /\ \E i \in Catalog :
         /\ tasks[i].pc = "done"
         /\ tasks[i].response = <<>>
         /\ tasks[i].result # <<>>
         /\ tasks[i].result[1].timestamp < now
    /\ \E j \in Catalog :
         /\ tasks[j].pc = "waiting"
         /\ cache[RegionOf(j)] # <<>>
         /\ now - cache[RegionOf(j)][1].time = cache_duration

\* C3: whatever the order in which the fetches completed, the readings are
\* returned ascending by carbon_intensity, and readings of equal
\* carbon_intensity in the order of their regions in the catalog.
C3_OrderByIntensityThenCatalog ==
    AllRegionsReturned
        => \A i, j \in DOMAIN returned[1].readings :
              i < j =>
                \/ returned[1].readings[i].carbon_intensity
                     < returned[1].readings[j].carbon_intensity
                \/ /\ returned[1].readings[i].carbon_intensity
                        = returned[1].readings[j].carbon_intensity
                   /\ CatalogIndex(returned[1].readings[i].gcp_region)
                        < CatalogIndex(returned[1].readings[j].gcp_region)

\* The second region's fetch completed before the first's, the two readings
\* tie, and the first region's reading is first.
C3_Witness ==
    /\ AllRegionsReturned
    /\ returned[1].completed = <<2, 1>>
    /\ Len(returned[1].readings) = 2
    /\ returned[1].readings[1].carbon_intensity = returned[1].readings[2].carbon_intensity
    /\ returned[1].readings[1].gcp_region = RegionOf(1)

\* C6: an answer whose kept values sum to zero makes the parser return the
\* empty sequence and the lookup return absent: no reading is made, the cache
\* is left as it was, and the ranking has no reading of that region.
C6_ZeroTotalIsAbsent ==
    [][/\ \A i \in Catalog :
            (/\ tasks[i].pc = "waiting"
             /\ tasks'[i].pc = "done"
             /\ NoUsableData(tasks'[i].response[1]))
                => /\ ParseEIAResponse(tasks'[i].response[1].data) = <<>>
                   /\ tasks'[i].result = <<>>
                   /\ cache' = cache
       /\ GatherFinishes
            => \A i \in Catalog :
                 (tasks[i].response # <<>> /\ NoUsableData(tasks[i].response[1]))
                    => \A k \in DOMAIN returned'[1].readings :
                          returned'[1].readings[k].gcp_region # tasks[i].region]_vars

\* A fetch was answered with values that cancel; no reading, no cache entry.
C6_Witness ==
    \E i \in Catalog :
        /\ tasks[i].pc = "done"
        /\ tasks[i].response # <<>>
        /\ NoUsableData(tasks[i].response[1])
        /\ \E k \in DOMAIN tasks[i].response[1].data :
              tasks[i].response[1].data[k].value = <<-2>>
        /\ tasks[i].result = <<>>
        /\ cache[tasks[i].region] = <<>>

GenerationDescending(fuel_mix) ==
    \A k \in DOMAIN fuel_mix :
        k < Len(fuel_mix) => fuel_mix[k].generation_mwh >= fuel_mix[k + 1].generation_mwh

\* C9: get_carbon_rankings over N readings yields N entries, ranked 1..N in
\* output order, carbon_intensity non-decreasing with rank, each entry's
\* fuel_mix the first min(5, len) rows of its reading's generation-descending
\* fuel_mix.
C9_Rankings ==
    (returned # <<>> /\ returned[1].op = "get_carbon_rankings")
        => LET rankings == returned[1].value
               readings == returned[1].readings
           IN  /\ Len(rankings) = Len(readings)
               /\ \A i \in DOMAIN rankings :
                    /\ rankings[i].rank = i
                    /\ rankings[i].gcp_region = readings[i].gcp_region
                    /\ rankings[i].carbon_intensity = readings[i].carbon_intensity
                    /\ i < Len(rankings)
                         => rankings[i].carbon_intensity <= rankings[i + 1].carbon_intensity
                    /\ GenerationDescending(readings[i].fuel_mix)
                    /\ Len(rankings[i].fuel_mix) = Min(5, Len(readings[i].fuel_mix))
                    /\ \A k \in DOMAIN rankings[i].fuel_mix :
                         rankings[i].fuel_mix[k] =
                            [fuel |-> readings[i].fuel_mix[k].fuel_type,
                             generation_mwh |-> readings[i].fuel_mix[k].generation_mwh,
                             percentage |-> readings[i].fuel_mix[k].percentage]

\* Two entries, one of them of a reading with six fuels, cut to five rows.
C9_Witness ==
    /\ returned # <<>>
    /\ returned[1].op = "get_carbon_rankings"
    /\ Len(returned[1].value) = 2
    /\ \E i \in DOMAIN returned[1].value :
         /\ Len(returned[1].readings[i].fuel_mix) = 6
         /\ Len(returned[1].value[i].fuel_mix) = 5

\* The value a lookup returned, against a reading.
SameMeasurement(value, reading) ==
    /\ value.gcp_region = reading.gcp_region
    /\ value.balancing_authority = reading.balancing_authority
    /\ value.carbon_intensity = reading.carbon_intensity
    /\ value.renewable_percent = reading.renewable_percent
    /\ value.data_hour = reading.data_hour
    /\ value.fuel_mix = FuelDicts(reading.fuel_mix)

\* The entry of region is one whole (reading, stored_at) pair, the product of
\* one answer of the provider.
CompleteEntry(c, region) ==
    LET entry == c[region][1]
    IN  /\ region \in CatalogRegions
        /\ entry.reading.gcp_region = region
        /\ entry.reading.balancing_authority
             = gcp_to_eia_mapping[CatalogIndex(region)].balancing_authority
        /\ entry.reading.timestamp = entry.time
        /\ entry.reading.data_hour = StrfTimeHour(entry.time)
        /\ \E resp \in Responses :
              /\ resp.ok
              /\ SumGeneration(FuelData(resp.data)) # 0
              /\ entry.reading.fuel_mix = ParseEIAResponse(resp.data)
              /\ entry.reading.carbon_intensity
                   = CalculateCarbonIntensity(ParseEIAResponse(resp.data))
              /\ entry.reading.renewable_percent
                   = CalculateRenewablePercentage(ParseEIAResponse(resp.data))

\* C10: overlapping lookups of one region are not deduplicated: a lookup is
\* answered without a call to the provider only from a fresh cache entry (or
\* for an unmapped region), also while another lookup of the region is in
\* flight; each successful lookup overwrites the region's entry, whatever it
\* holds, so that the entry is the reading of the put made last; and an
\* entry is always absent or one whole pair made from one answer.
C10_LastWriteWins ==
    [][/\ \A region \in RegionStrings :
            cache'[region] # <<>> => CompleteEntry(cache', region)
       /\ (returned' # <<>> /\ tasks' = tasks)
            => /\ ~returned'[1].fetched
               /\ cache' = cache
               /\ IF returned'[1].value = <<>>
                  THEN returned'[1].region \notin CatalogRegions
                  ELSE /\ cache[returned'[1].region] # <<>>
                       /\ now - cache[returned'[1].region][1].time < cache_duration
                       /\ SameMeasurement(returned'[1].value[1],
                                          cache[returned'[1].region][1].reading)
       /\ \A t \in SingleTasks :
            (tasks[t].pc = "idle" /\ tasks'[t].pc = "waiting")
                => ~(/\ cache[tasks'[t].region] # <<>>
                     /\ now - cache[tasks'[t].region][1].time < cache_duration)
       /\ \A t \in SingleTasks :
            (tasks[t].pc = "waiting" /\ tasks'[t].pc = "idle")
                => /\ returned' # <<>>
                   /\ returned'[1].fetched
                   /\ returned'[1].region = tasks[t].region
                   /\ IF returned'[1].value = <<>> THEN cache' = cache
                      ELSE /\ cache'[tasks[t].region] # <<>>
                           /\ cache'[tasks[t].region][1].time = now
                           /\ SameMeasurement(returned'[1].value[1],
                                              cache'[tasks[t].region][1].reading)
                           /\ \A other \in RegionStrings \ {tasks[t].region} :
                                 cache'[other] = cache[other]]_vars

\* Both lookups of one region called the provider; the first put an entry,
\* and the second, answered while that entry was fresh, put another reading
\* over it.
C10_Witness ==
    /\ returned # <<>>
    /\ returned[1].op = "get_region_carbon_intensity"
    /\ returned[1].fetched
    /\ returned[1].value # <<>>
    /\ returned[1].previous # <<>>
    /\ now - returned[1].previous[1].time < cache_duration
    /\ returned[1].previous[1].reading.carbon_intensity
         # returned[1].value[1].carbon_intensity
    /\ cache[returned[1].region][1].reading.carbon_intensity
         = returned[1].value[1].carbon_intensity
    /\ \A t \in SingleTasks : tasks[t].pc = "idle"

RegionDataReturned == returned # <<>> /\ returned[1].op = "get_region_carbon_data"

\* C7: get_region_carbon_data always returns: the measured values when the
\* lookup gave a reading; 350.0, 30.0, "unknown", "estimated" when it gave
\* none (unmapped region, failed fetch, no usable data); the same with
\* "error" when an exception occurred.  A balancing_authority other than
\* "unknown" comes with the values of a reading fetched by this call.
C7_FallbackValues ==
    RegionDataReturned
        => LET value == returned[1].value[1]
               region == returned[1].region
           IN  /\ returned[1].raised <=> ~api_key
               /\ returned[1].raised
                    => value = [carbon_intensity |-> 3500, renewable_percent |-> 300,
                                balancing_authority |-> "unknown", data_hour |-> "error"]
               /\ (~returned[1].raised /\ cache[region] = <<>>)
                    => value = [carbon_intensity |-> 3500, renewable_percent |-> 300,
                                balancing_authority |-> "unknown", data_hour |-> "estimated"]
               /\ (~returned[1].raised /\ cache[region] # <<>>)
                    => /\ returned[1].fetched
                       /\ value = [carbon_intensity |-> cache[region][1].reading.carbon_intensity,
                                   renewable_percent |-> cache[region][1].reading.renewable_percent,
                                   balancing_authority |->
                                       cache[region][1].reading.balancing_authority,
                                   data_hour |-> cache[region][1].reading.data_hour]
               /\ value.balancing_authority # "unknown"
                    => /\ cache[region] # <<>>
                       /\ CompleteEntry(cache, region)
                       /\ cache[region][1].time = now
                       /\ value.carbon_intensity = cache[region][1].reading.carbon_intensity

\* The fetch of a catalog region failed, and the estimate was returned.
C7_Witness ==
    /\ RegionDataReturned
    /\ returned[1].region \in CatalogRegions
    /\ returned[1].fetched
    /\ returned[1].value[1].data_hour = "estimated"
    /\ returned[1].value[1].carbon_intensity = 3500

SelectReturned == returned # <<>> /\ returned[1].op = "select_optimal_region"

\* C8, as stated: select_optimal_region returns "us-west1" exactly when
\* get_greenest_region gave absent or an exception occurred.
C8_DefaultExactlyOnFallback ==
    SelectReturned
        => (returned[1].value = <<"us-west1">>
              <=> (returned[1].raised \/ returned[1].readings = <<>>))

\* C8, amended: select_optimal_region always returns: "us-west1" when an
\* exception occurred or no fetch succeeded, and otherwise the region of the
\* first reading of the ascending ranking, a region of minimum
\* carbon_intensity among those fetched, which may itself be "us-west1".
C8_GreenestOrDefault ==
    SelectReturned
        => LET readings == returned[1].readings
           IN  /\ returned[1].raised <=> ~api_key
               /\ Len(readings) = Cardinality({r \in RegionStrings : cache[r] # <<>>})
               /\ IF returned[1].raised \/ readings = <<>>
                  THEN returned[1].value = <<"us-west1">>
                  ELSE /\ returned[1].value = <<readings[1].gcp_region>>
                       /\ cache[readings[1].gcp_region] # <<>>
                       /\ \A r \in RegionStrings :
                            cache[r] # <<>>
                              => cache[readings[1].gcp_region][1].reading.carbon_intensity
                                   <= cache[r][1].reading.carbon_intensity

\* Every fetch failed, and the default region was returned.
C8_Witness ==
    /\ SelectReturned
    /\ ~returned[1].raised
    /\ Len(returned[1].completed) = Len(gcp_to_eia_mapping)
    /\ returned[1].readings = <<>>
    /\ returned[1].value = <<"us-west1">>

\* Task t, waiting for the provider, is answered in this step.
Answered(t) == tasks[t].pc = "waiting" /\ tasks'[t].pc # "waiting"

\* ... and what its lookup gave: absent (<<>>) or the reading, which a
\* single-region lookup hands to its caller and a task of the gather keeps.
AnsweredResult(t) ==
    IF t \in SingleTasks THEN returned'[1].value ELSE RegionCarbonIntensity(tasks'[t].result)

\* A lookup that returns in the step that starts it (a cache hit, an unmapped
\* region).
ReturnsAtOnce == returned' # <<>> /\ tasks' = tasks /\ gather' = gather

\* C11: the cache starts empty; an entry of region R changes only in a step
\* in which a fetch for R, a cataloged region, succeeds, and it becomes the
\* whole reading of that fetch for R, stored now, while every other entry is
\* left as it was; a lookup that ends absent (unmapped region, failed fetch,
\* no usable data) leaves the whole cache as it was, an expired entry
\* included; and a reading handed to a caller is that of an entry less than
\* cache_duration old.
C11_CacheInvariants ==
    /\ \A r \in RegionStrings : cache[r] = <<>>
    /\ [][/\ \A r \in RegionStrings :
               cache'[r] # cache[r]
                 => /\ r \in CatalogRegions
                    /\ cache'[r] # <<>>
                    /\ CompleteEntry(cache', r)
                    /\ cache'[r][1].reading.gcp_region = r
                    /\ cache'[r][1].time = now
                    /\ \E t \in TaskIds :
                         /\ Answered(t)
                         /\ tasks[t].region = r
                         /\ AnsweredResult(t) # <<>>
                         /\ SameMeasurement(AnsweredResult(t)[1], cache'[r][1].reading)
                    /\ \A other \in RegionStrings \ {r} : cache'[other] = cache[other]
          /\ \A t \in TaskIds :
               (Answered(t) /\ AnsweredResult(t) = <<>>) => cache' = cache
          /\ \A t \in TaskIds :
               (Answered(t) /\ AnsweredResult(t) # <<>>)
                 => /\ cache'[tasks[t].region] # <<>>
                    /\ cache'[tasks[t].region][1].time = now
                    /\ SameMeasurement(AnsweredResult(t)[1],
                                       cache'[tasks[t].region][1].reading)
          /\ (ReturnsAtOnce /\ returned'[1].value = <<>>) => cache' = cache
          /\ (returned' # <<>> /\ returned'[1].op = "get_region_carbon_intensity"
                /\ returned'[1].value # <<>>)
                 => /\ cache'[returned'[1].region] # <<>>
                    /\ now - cache'[returned'[1].region][1].time < cache_duration
                    /\ SameMeasurement(returned'[1].value[1],
                                       cache'[returned'[1].region][1].reading)]_vars

\* A lookup found the entry of its region expired, its fetch failed, and it
\* returned absent; the expired entry is still stored, and no entry exists
\* for a region that had no successful fetch.
C11_Witness ==
    /\ returned # <<>>
    /\ returned[1].op = "get_region_carbon_intensity"
    /\ returned[1].fetched
    /\ returned[1].value = <<>>
    /\ returned[1].previous # <<>>
    /\ now - returned[1].previous[1].time >= cache_duration
    /\ cache[returned[1].region] = returned[1].previous
    /\ \E r \in CatalogRegions : cache[r] = <<>>

\* The hour a period label names, written as data_hour is written.
PeriodHour(period) ==
    CASE period = <<1, 0>> -> "2024-01-01 10:00"
      [] period = <<1, 1>> -> "2024-01-01 11:00"
      [] OTHER             -> "2024-01-01 12:00"

\* C12: the data_hour of a reading made from an answer of the provider is the
\* hour named by the period of the records the parser kept from that answer,
\* and those records all have one period, the most recent of the answer.
C12_DataHourIsRetainedPeriod ==
    \A i \in Catalog :
        (tasks[i].pc = "done" /\ tasks[i].response # <<>> /\ tasks[i].result # <<>>)
            => LET data == tasks[i].response[1].data
                   fuel_data == FuelData(data)
               IN  \A k \in DOMAIN fuel_data :
                     /\ PeriodHour(fuel_data[k].period) = tasks[i].result[1].data_hour
                     /\ \A j \in DOMAIN data : ~LexGT(data[j].period, fuel_data[k].period)

\* A call of the provider for region goes out in this step.
ProviderCalled(region) ==
    \E t \in TaskIds :
        /\ tasks[t].pc # "waiting"
        /\ tasks'[t].pc = "waiting"
        /\ tasks'[t].region = region

\* The last successful fetch of region in this process, by whatever call, is
\* less than cache_duration old.  (Between two calls, cache still holds what
\* the service of the call before fetched and stored.)
FetchedWithinWindow(region) ==
    /\ cache[region] # <<>>
    /\ now - cache[region][1].time < cache_duration

\* C13: over any sequence of select_optimal_region, get_region_carbon_data
\* and get_regions_ranking calls in one process, the provider is not called for
\* a region less than cache_duration after a successful fetch of that region.
C13_OneProviderCallPerWindow ==
    [][\A region \in CatalogRegions :
          FetchedWithinWindow(region) => ~ProviderCalled(region)]_vars
====
